---- MODULE Spec2Model ----
(***************************************************************************)
(* A model of the two caches of the resource-resolution layer:            *)
(*   - FontStore (src/src/font.rs): new, on_load, select, get;             *)
(*   - LuaWorld  (src/src/eval/lua.rs): slot, insert, resolve, file, read. *)
(* Option<T> is modelled as a sequence: None is <<>>, Some(x) is <<x>>.    *)
(* Result<T, E> is modelled the same way where the error carries nothing   *)
(* the store looks at (select turns every Err into None with .ok()?).      *)
(***************************************************************************)
EXTENDS Integers, Sequences, FiniteSets, TLC

VARIABLES
    infos,      \* loader.faces(): the descriptor list, fixed for the run
    faces,      \* FontStore.faces: one Option<Face> per FaceId
    families,   \* FontStore.families: lower-cased name -> list of FaceId
    buffers,    \* FontStore.buffers: FileHash -> shared byte buffer
    on_load,    \* FontStore.on_load: Option of the registered observer
    calls,      \* history: per FaceId, the observers invoked for it, in order
    stores,     \* history: per FaceId, how often a face was written to its slot
    loadsOk,    \* history: per FileHash, how often loader.load succeeded for it
    faceHash,   \* history: per FaceId, the hash loader.resolve gave when it loaded
    returned,   \* history: the FaceIds some select has returned as Some
    loadedUnder,\* history: per FaceId, on_load as it was when the face was stored
    paths,      \* LuaWorld.paths: normalized path -> PathSlot
    sources,    \* LuaWorld.sources: the interned sources, in order
    reads,      \* history: per normalized path, how often fs::read was called
    last        \* the last operation and what it did

vars == <<infos, faces, families, buffers, on_load, calls, stores, loadsOk,
          faceHash, returned, loadedUnder, paths, sources, reads,
          last>>

----------------------------------------------------------------------------
(* Bounds of the model.                                                    *)

\* Number of descriptors loader.faces() returns.
MaxFaces == 2

----------------------------------------------------------------------------
(* Option.                                                                 *)

None == <<>>

Some(x) == <<x>>

----------------------------------------------------------------------------
(* Strings are sequences of ASCII codes: "Ab" is <<65, 98>>.               *)

NameAb == <<65, 98>>
Name_ab == <<97, 98>>
Name_b == <<98>>

\* char::to_lowercase on ASCII: 'A'..'Z' (65..90) map to 'a'..'z'.
ToLowerChar(c) == IF c >= 65 /\ c <= 90 THEN c + 32 ELSE c

\* str::to_lowercase as FontStore::new applies it to info.family.
to_lowercase(s) == [i \in 1 .. Len(s) |-> ToLowerChar(s[i])]

----------------------------------------------------------------------------
(* The variant model.                                                      *)

FontStyle == {"Normal", "Italic", "Oblique"}

\* u16 as i16 (the `as i16` cast of FontWeight::distance).
AsI16(n) == IF n >= 32768 THEN n - 65536 ELSE n

\* i16 arithmetic wraps (release build).
WrapI16(x) == ((x + 32768) % 65536) - 32768

\* i16::abs, wrapping at i16::MIN.
AbsI16(x) == IF x < 0 THEN WrapI16(0 - x) ELSE x

\* i16 as u16.
AsU16(x) == x % 65536

WeightDistanceNoAbs(a, b) == AsU16(WrapI16(AsI16(a) - AsI16(b)))

\* FontWeight::distance: (self.0 as i16 - other.0 as i16).abs() as u16.
WeightDistance(a, b) == AsU16(AbsI16(WrapI16(AsI16(a) - AsI16(b))))

\* u16::max and u16::min.
MaxU16(a, b) == IF a >= b THEN a ELSE b

MinU16(a, b) == IF a <= b THEN a ELSE b

FontWeight_from_number_NoMax(weight) == MinU16(weight, 900)

\* FontWeight::from_number: Self(weight.max(100).min(900)).
FontWeight_from_number(weight) == MinU16(MaxU16(weight, 100), 900)

\* FontStretch::distance: (self.to_ratio() - other.to_ratio()).abs(), in
\* permille. The model's stretches are named presets, multiples of 125
\* permille: their f32 ratios are multiples of 1/8, so the division by 1000.0,
\* the subtraction and abs are exact and the f32 order is the integer order.
StretchDistance(a, b) == IF a >= b THEN a - b ELSE b - a

FontVariant(style, weight, stretch) ==
    [style |-> style, weight |-> weight, stretch |-> stretch]

\* The key select minimizes: (style differs, stretch distance, weight distance).
VariantKey(current, variant) ==
    << current.style # variant.style,
       StretchDistance(current.stretch, variant.stretch),
       WeightDistance(current.weight, variant.weight) >>

BoolLess(a, b) == (~a) /\ b

KeyLessOrEqual(key, b) ==
    \/ BoolLess(key[1], b[1])
    \/ key[1] = b[1] /\ key[2] < b[2]
    \/ key[1] = b[1] /\ key[2] = b[2] /\ key[3] <= b[3]

KeyLessWeightFirst(key, b) ==
    \/ BoolLess(key[1], b[1])
    \/ key[1] = b[1] /\ key[3] < b[3]
    \/ key[1] = b[1] /\ key[3] = b[3] /\ key[2] < b[2]

\* `key < b` on (bool, f32, u16): the derived lexicographic order of tuples.
KeyLess(key, b) ==
    \/ BoolLess(key[1], b[1])
    \/ key[1] = b[1] /\ key[2] < b[2]
    \/ key[1] = b[1] /\ key[2] = b[2] /\ key[3] < b[3]

----------------------------------------------------------------------------
(* The loader (crate::loading::Loader) and the font parser, as the store   *)
(* sees them.                                                              *)

Paths == {"fonts/a.ttc", "fonts/b.ttf"}

\* FileHash values loader.resolve may return.
Hashes == {11, 12}

\* The bytes of a font file, as far as the store can tell them apart: the set
\* of collection indices at which the bytes parse as a face. {} is a file
\* that is no font, {0, 1} a collection of two faces.
Buffers == {{}, {0, 1}}

\* loader.resolve(path): Err (None after .ok()) or Ok(hash).
LoaderResolveOutcomes == {None} \cup {Some(h) : h \in Hashes}

\* loader.load(path): Err (None after .ok()) or Ok(bytes).
LoaderLoadOutcomes == {None} \cup {Some(b) : b \in Buffers}

\* The observers a caller may register with on_load.
Observers == {"f", "g"}

FaceInfo(path, index, family, variant) ==
    [path |-> path, index |-> index, family |-> family, variant |-> variant]

\* Face::new(buffer, index): rustybuzz::Face::from_slice(slice, index)? fails
\* when the bytes are no font or hold no face at that index; otherwise the
\* face keeps the Rc it was given and its index.
Face_new(buffer, index) ==
    IF index \in buffer.data
    THEN Some([buffer |-> buffer, index |-> index])
    ELSE None

----------------------------------------------------------------------------
(* Face::new: the metrics.                                                 *)

\* Em::from_units(units, units_per_em): the quotient, kept as its two terms.
to_em(units, units_per_em) == [units |-> units, units_per_em |-> units_per_em]

\* Option::unwrap_or.
unwrap_or(opt, default) == IF opt # None THEN opt[1] ELSE default

\* Option::filter(|&h| h > 0).
FilterPositive(opt) == IF opt # None /\ opt[1] > 0 THEN opt ELSE None

FaceMetricsNonNegative(ttf) ==
    LET ascender ==
            to_em(unwrap_or(ttf.typographic_ascender, ttf.ascender),
                  ttf.units_per_em)
        cap == IF ttf.capital_height # None /\ ttf.capital_height[1] >= 0
               THEN ttf.capital_height ELSE None
        x == IF ttf.x_height # None /\ ttf.x_height[1] >= 0
             THEN ttf.x_height ELSE None
    IN  [ascender |-> ascender,
         cap_height |-> IF cap # None THEN to_em(cap[1], ttf.units_per_em)
                        ELSE ascender,
         x_height |-> IF x # None THEN to_em(x[1], ttf.units_per_em)
                      ELSE ascender,
         descender |-> to_em(unwrap_or(ttf.typographic_descender,
                                       ttf.descender), ttf.units_per_em)]

\* The vertical metrics Face::new computes from the parsed face `ttf`.
FaceMetrics(ttf) ==
    LET ascender ==
            to_em(unwrap_or(ttf.typographic_ascender, ttf.ascender),
                  ttf.units_per_em)
        cap == FilterPositive(ttf.capital_height)
        x == FilterPositive(ttf.x_height)
    IN  [ascender |-> ascender,
         cap_height |-> IF cap # None THEN to_em(cap[1], ttf.units_per_em)
                        ELSE ascender,
         x_height |-> IF x # None THEN to_em(x[1], ttf.units_per_em)
                      ELSE ascender,
         descender |-> to_em(unwrap_or(ttf.typographic_descender,
                                       ttf.descender), ttf.units_per_em)]

----------------------------------------------------------------------------
(* FontStore::new.                                                         *)

RECURSIVE BuildFamiliesRawKey(_, _, _)
BuildFamiliesRawKey(list, i, fams) ==
    IF i > Len(list)
    THEN fams
    ELSE LET id == i - 1
             key == list[i].family
         IN  BuildFamiliesRawKey(list, i + 1,
                 IF key \in DOMAIN fams
                 THEN [fams EXCEPT ![key] = Append(@, id)]
                 ELSE fams @@ (key :> <<id>>))

RECURSIVE BuildFamilies(_, _, _)
\* The loop of FontStore::new over loader.faces().iter().enumerate(), from
\* the i-th descriptor on (1-based; FaceId is i - 1).
BuildFamilies(list, i, fams) ==
    IF i > Len(list)
    THEN fams
    ELSE LET id == i - 1
             key == to_lowercase(list[i].family)
         IN  BuildFamilies(list, i + 1,
                 IF key \in DOMAIN fams
                 THEN [fams EXCEPT ![key] = Append(@, id)]
                 ELSE fams @@ (key :> <<id>>))

\* The face table of FontStore::new: faces.push(None) per descriptor.
NewFaces(list) == [i \in 1 .. Len(list) |-> None]

----------------------------------------------------------------------------
(* FontStore::select: the lookup and the search for the best match.        *)

\* self.families.get(family): the argument is the key as given.
FamiliesGet(fams, family) ==
    IF family \in DOMAIN fams THEN Some(fams[family]) ELSE None

RECURSIVE MatchLoopNoBreak(_, _, _, _, _, _)
MatchLoopNoBreak(list, ids, i, variant, best, best_key) ==
    IF i > Len(ids)
    THEN best
    ELSE LET id == ids[i]
             current == list[id + 1].variant
             key == VariantKey(current, variant)
         IN  IF current = variant
             THEN MatchLoopNoBreak(list, ids, i + 1, variant, Some(id), best_key)
             ELSE IF best_key = None \/ KeyLess(key, best_key[1])
                  THEN MatchLoopNoBreak(list, ids, i + 1, variant, Some(id), Some(key))
                  ELSE MatchLoopNoBreak(list, ids, i + 1, variant, best, best_key)

RECURSIVE MatchLoop(_, _, _, _, _, _)
\* The loop `for &id in ids` of select from the i-th candidate on, with the
\* loop's `best` and `best_key`; its value is `best` after the loop.
MatchLoop(list, ids, i, variant, best, best_key) ==
    IF i > Len(ids)
    THEN best
    ELSE LET id == ids[i]
             current == list[id + 1].variant
             key == VariantKey(current, variant)
         IN  IF current = variant
             THEN Some(id)
             ELSE IF best_key = None \/ KeyLess(key, best_key[1])
                  THEN MatchLoop(list, ids, i + 1, variant, Some(id), Some(key))
                  ELSE MatchLoop(list, ids, i + 1, variant, best, best_key)

\* Lines 78-109 of select: `best` for the request, None when the family is
\* unknown.
SelectBest(list, fams, family, variant) ==
    LET ids == FamiliesGet(fams, family)
    IN  IF ids = None
        THEN None
        ELSE MatchLoop(list, ids[1], 1, variant, None, None)

----------------------------------------------------------------------------
(* FontStore::select: loading the chosen face.                             *)

SlotIsNoneAlways(slot) == TRUE

\* `if slot.is_none()`.
SlotIsNone(slot) == slot = None

RECURSIVE SumOver(_, _)
SumOver(f, S) ==
    IF S = {} THEN 0
    ELSE LET x == CHOOSE y \in S : TRUE IN f[x] + SumOver(f, S \ {x})

\* Rc::new(buffer): a fresh allocation, told apart from every earlier one by
\* its number; `data` are the bytes.
RcNew(data, allocated) == [rc |-> allocated + 1, data |-> data]

BufferEntryNoCache(bufs, hash, l, allocated) ==
    IF l = None
    THEN [ok |-> FALSE, buffers |-> bufs, loadCalled |-> TRUE]
    ELSE [ok |-> TRUE,
          buffers |-> [h \in DOMAIN bufs \cup {hash} |->
                          IF h = hash THEN RcNew(l[1], allocated) ELSE bufs[h]],
          loadCalled |-> TRUE]

\* `match self.buffers.entry(hash)`: an occupied entry is used as it is; for a
\* vacant one loader.load(path) is called (its outcome is l) and the bytes are
\* inserted, or select returns None when the load failed.
BufferEntry(bufs, hash, l, allocated) ==
    IF hash \in DOMAIN bufs
    THEN [ok |-> TRUE, buffers |-> bufs, loadCalled |-> FALSE]
    ELSE IF l = None
         THEN [ok |-> FALSE, buffers |-> bufs, loadCalled |-> TRUE]
         ELSE [ok |-> TRUE,
               buffers |-> bufs @@ (hash :> RcNew(l[1], allocated)),
               loadCalled |-> TRUE]

StoreFaceNever(fs, idx, face) == fs

StoreFaceEverywhere(fs, idx, face) == [i \in DOMAIN fs |-> Some(face)]

\* `*slot = Some(face)`.
StoreFace(fs, idx, face) == [fs EXCEPT ![idx] = Some(face)]

NotifyAlways(callback, parsed) == callback # None

\* `if let Some(callback) = &self.on_load { callback(id, &face) }`, reached
\* only after Face::new succeeded (the `?` on line 128).
Notify(callback, parsed) == callback # None /\ parsed

\* What a select call that does nothing reports.
NoEffect(fs, bufs) ==
    [result |-> None, chosen |-> None, wasLoaded |-> FALSE,
     resolveCalled |-> FALSE, resolveOk |-> FALSE, hash |-> None,
     loadCalled |-> FALSE, loadOk |-> FALSE,
     parseCalled |-> FALSE, parseOk |-> FALSE,
     notified |-> FALSE, stored |-> FALSE, slotAtCallback |-> "none",
     faces |-> fs, buffers |-> bufs]

\* Lines 111-136 of select for the chosen id: r is what loader.resolve gives
\* and l what loader.load gives, should they be called.
LoadChosen(list, fs, bufs, callback, id, r, l, allocated) ==
    LET idx == id + 1
        base == [NoEffect(fs, bufs) EXCEPT !.chosen = Some(id)]
    IN  IF ~SlotIsNone(fs[idx])
        THEN [base EXCEPT !.result = Some(id), !.wasLoaded = TRUE]
        ELSE IF r = None
        THEN [base EXCEPT !.resolveCalled = TRUE]
        ELSE
        LET e == BufferEntry(bufs, r[1], l, allocated)
            resolved == [base EXCEPT !.resolveCalled = TRUE, !.resolveOk = TRUE,
                                     !.hash = r, !.loadCalled = e.loadCalled,
                                     !.loadOk = e.loadCalled /\ e.ok,
                                     !.buffers = e.buffers]
        IN  IF ~e.ok
            THEN resolved
            ELSE
            LET face == Face_new(e.buffers[r[1]], list[idx].index)
                parsed == [resolved EXCEPT !.parseCalled = TRUE,
                                           !.parseOk = face # None,
                                           !.notified = Notify(callback, face # None),
                                           !.slotAtCallback =
                                               IF ~Notify(callback, face # None)
                                               THEN "none"
                                               ELSE IF SlotIsNone(fs[idx])
                                                    THEN "empty"
                                                    ELSE "loaded"]
            IN  IF face = None
                THEN parsed
                ELSE [parsed EXCEPT !.stored = StoreFace(fs, idx, face[1]) # fs,
                                    !.faces = StoreFace(fs, idx, face[1]),
                                    !.result = Some(id)]

\* One call of select(family, variant).
SelectRun(list, fs, fams, bufs, callback, family, variant, r, l, allocated) ==
    LET best == SelectBest(list, fams, family, variant)
    IN  IF best = None
        THEN NoEffect(fs, bufs)
        ELSE LoadChosen(list, fs, bufs, callback, best[1], r, l, allocated)

\* `self.faces[id.0 as usize].as_ref().expect(..)`: the face, or a panic when
\* the index is out of bounds or the slot is None.
GetRun(fs, id) ==
    IF id + 1 \in DOMAIN fs /\ fs[id + 1] # None
    THEN [panic |-> FALSE, face |-> fs[id + 1]]
    ELSE [panic |-> TRUE, face |-> None]

----------------------------------------------------------------------------
(* The resource world cache (src/src/eval/lua.rs).                         *)

\* Result<T, FileError>.
Ok(v) == [ok |-> TRUE, val |-> <<v>>, err |-> "none"]

Err(e) == [ok |-> FALSE, val |-> <<>>, err |-> e]

\* A path is the sequence of its components.
PathB == <<"b.typ">>
PathAB == <<"a", "..", "b.typ">>
PathC == <<"c.typ">>

\* The spellings callers pass to resolve and file.
Spellings == {PathB, PathAB, PathC}

RECURSIVE NormalizeFrom(_, _, _)
\* PathExt::normalize, lexically: `.` is dropped, `..` pops a preceding
\* normal component, everything else is pushed.
NormalizeFrom(path, i, out) ==
    IF i > Len(path)
    THEN out
    ELSE IF path[i] = "."
         THEN NormalizeFrom(path, i + 1, out)
         ELSE IF path[i] = ".." /\ Len(out) > 0 /\ out[Len(out)] # ".."
              THEN NormalizeFrom(path, i + 1, SubSeq(out, 1, Len(out) - 1))
              ELSE NormalizeFrom(path, i + 1, Append(out, path[i]))

normalize(path) == NormalizeFrom(path, 1, <<>>)

CanonicalPaths == {normalize(p) : p \in Spellings}

\* The bytes a file may hold: "hi", and one byte that is no UTF-8.
TextBytes == <<104, 105>>
BadBytes == <<255>>
FileBytes == {TextBytes, BadBytes}

\* The kinds of std::io::Error the host may report.
IoErrorKinds == {"NotFound", "PermissionDenied"}

\* fs::metadata(path): an I/O error or whether the path is a directory.
StatOutcomes == {Err(k) : k \in IoErrorKinds} \cup {Ok(d) : d \in BOOLEAN}

\* fs::read(path): an I/O error or the bytes.
ReadOutcomes == {Err(k) : k \in IoErrorKinds} \cup {Ok(b) : b \in FileBytes}

\* FileError::from_io(e, path).
from_io(kind) ==
    IF kind = "NotFound" THEN "NotFound"
    ELSE IF kind = "PermissionDenied" THEN "AccessDenied"
    ELSE "Other"

\* String::from_utf8(buf), on bytes that are ASCII or 0xFF.
from_utf8(buf) ==
    IF \A i \in 1 .. Len(buf) : buf[i] < 128
    THEN Ok(buf)
    ELSE Err("InvalidUtf8")

ReadFileNoStat(st, rd) ==
    IF ~rd.ok
    THEN [result |-> Err(from_io(rd.err)), readCalled |-> TRUE]
    ELSE [result |-> Ok(rd.val[1]), readCalled |-> TRUE]

\* read(path): st is what fs::metadata gives and rd what fs::read gives.
ReadFile(st, rd) ==
    IF ~st.ok
    THEN [result |-> Err(from_io(st.err)), readCalled |-> FALSE]
    ELSE IF st.val[1]
         THEN [result |-> Err("IsDirectory"), readCalled |-> FALSE]
         ELSE IF ~rd.ok
              THEN [result |-> Err(from_io(rd.err)), readCalled |-> TRUE]
              ELSE [result |-> Ok(rd.val[1]), readCalled |-> TRUE]

\* #[derive(Default)] PathSlot: two empty cells.
DefaultSlot == [source |-> None, buffer |-> None]

\* LuaWorld::slot: paths.entry(path.normalize()).or_default().
SlotEntry(ps, path) ==
    IF normalize(path) \in DOMAIN ps
    THEN ps
    ELSE ps @@ (normalize(path) :> DefaultSlot)

\* The source list is kept as the entries pushed since the state the model
\* starts from, after `earlier` entries pushed before it: entry i of those
\* (from 0) is EarlierSource(i), the source of the i-th file resolved before.
InternedPath(i) == <<"interned", ToString(i)>>

EarlierSource(i) ==
    [id |-> AsU16(i), path |-> InternedPath(i), text |-> TextBytes]

\* self.sources.len().
SourcesLen(srcs) == srcs.earlier + Len(srcs.entries)

\* SourceId::from_u16(self.sources.len() as u16).
NextSourceId(srcs) == AsU16(SourcesLen(srcs))

\* LuaWorld::insert: Source::new(id, path, text) is pushed.
InsertSource(srcs, path, text) ==
    [srcs EXCEPT !.entries =
        Append(@, [id |-> NextSourceId(srcs), path |-> path, text |-> text])]

\* LuaWorld::source(id): self.sources[id.into_u16() as usize].
SourceAt(srcs, id) ==
    IF id < srcs.earlier
    THEN EarlierSource(id)
    ELSE srcs.entries[id - srcs.earlier + 1]

ResolveRunAlways(ps, srcs, path, st, rd) ==
    LET key == normalize(path)
        slots == SlotEntry(ps, path)
        rf == ReadFile(st, rd)
        text == IF rf.result.ok THEN from_utf8(rf.result.val[1]) ELSE rf.result
        value == IF text.ok THEN Ok(NextSourceId(srcs)) ELSE text
    IN  [result |-> value,
         paths |-> [slots EXCEPT ![key].source = Some(value)],
         sources |-> IF text.ok THEN InsertSource(srcs, path, text.val[1]) ELSE srcs,
         computed |-> TRUE, statCalled |-> TRUE, readCalled |-> rf.readCalled]

ResolveRunRawKey(ps, srcs, path, st, rd) ==
    LET key == path
        slots == IF path \in DOMAIN ps THEN ps ELSE ps @@ (path :> DefaultSlot)
        rf == ReadFile(st, rd)
        text == IF rf.result.ok THEN from_utf8(rf.result.val[1]) ELSE rf.result
        value == IF text.ok THEN Ok(NextSourceId(srcs)) ELSE text
    IN  IF slots[key].source # None
        THEN [result |-> slots[key].source[1], paths |-> slots, sources |-> srcs,
              computed |-> FALSE, statCalled |-> FALSE, readCalled |-> FALSE]
        ELSE [result |-> value,
              paths |-> [slots EXCEPT ![key].source = Some(value)],
              sources |-> IF text.ok THEN InsertSource(srcs, path, text.val[1])
                          ELSE srcs,
              computed |-> TRUE, statCalled |-> TRUE, readCalled |-> rf.readCalled]

ResolveRunForgetErrors(ps, srcs, path, st, rd) ==
    LET key == normalize(path)
        slots == SlotEntry(ps, path)
        rf == ReadFile(st, rd)
        text == IF rf.result.ok THEN from_utf8(rf.result.val[1]) ELSE rf.result
        value == IF text.ok THEN Ok(NextSourceId(srcs)) ELSE text
    IN  IF slots[key].source # None
        THEN [result |-> slots[key].source[1], paths |-> slots, sources |-> srcs,
              computed |-> FALSE, statCalled |-> FALSE, readCalled |-> FALSE]
        ELSE [result |-> value,
              paths |-> IF text.ok
                        THEN [slots EXCEPT ![key].source = Some(value)]
                        ELSE slots,
              sources |-> IF text.ok THEN InsertSource(srcs, path, text.val[1])
                          ELSE srcs,
              computed |-> TRUE, statCalled |-> TRUE, readCalled |-> rf.readCalled]

\* LuaWorld::resolve(path): the cell's value when it is set, otherwise the
\* closure of get_or_init runs once and its result is stored.
ResolveRun(ps, srcs, path, st, rd) ==
    LET key == normalize(path)
        slots == SlotEntry(ps, path)
        rf == ReadFile(st, rd)
        text == IF rf.result.ok THEN from_utf8(rf.result.val[1]) ELSE rf.result
        value == IF text.ok THEN Ok(NextSourceId(srcs)) ELSE text
    IN  IF slots[key].source # None
        THEN [result |-> slots[key].source[1], paths |-> slots, sources |-> srcs,
              computed |-> FALSE, statCalled |-> FALSE, readCalled |-> FALSE]
        ELSE [result |-> value,
              paths |-> [slots EXCEPT ![key].source = Some(value)],
              sources |-> IF text.ok THEN InsertSource(srcs, path, text.val[1])
                          ELSE srcs,
              computed |-> TRUE, statCalled |-> TRUE, readCalled |-> rf.readCalled]

FileRunAlways(ps, path, st, rd) ==
    LET key == normalize(path)
        slots == SlotEntry(ps, path)
        rf == ReadFile(st, rd)
    IN  [result |-> rf.result,
         paths |-> [slots EXCEPT ![key].buffer = Some(rf.result)],
         computed |-> TRUE, statCalled |-> TRUE, readCalled |-> rf.readCalled]

FileRunSharesFailure(ps, path, st, rd) ==
    LET key == normalize(path)
        slots == SlotEntry(ps, path)
        rf == ReadFile(st, rd)
    IN  IF slots[key].buffer # None
        THEN [result |-> slots[key].buffer[1], paths |-> slots,
              computed |-> FALSE, statCalled |-> FALSE, readCalled |-> FALSE]
        ELSE IF slots[key].source # None /\ ~slots[key].source[1].ok
             THEN [result |-> slots[key].source[1],
                   paths |-> [slots EXCEPT ![key].buffer = slots[key].source],
                   computed |-> FALSE, statCalled |-> FALSE,
                   readCalled |-> FALSE]
             ELSE [result |-> rf.result,
                   paths |-> [slots EXCEPT ![key].buffer = Some(rf.result)],
                   computed |-> TRUE, statCalled |-> TRUE,
                   readCalled |-> rf.readCalled]

\* LuaWorld::file(path): the same discipline on the buffer cell.
FileRun(ps, path, st, rd) ==
    LET key == normalize(path)
        slots == SlotEntry(ps, path)
        rf == ReadFile(st, rd)
    IN  IF slots[key].buffer # None
        THEN [result |-> slots[key].buffer[1], paths |-> slots,
              computed |-> FALSE, statCalled |-> FALSE, readCalled |-> FALSE]
        ELSE [result |-> rf.result,
              paths |-> [slots EXCEPT ![key].buffer = Some(rf.result)],
              computed |-> TRUE, statCalled |-> TRUE, readCalled |-> rf.readCalled]

----------------------------------------------------------------------------
(* The inputs of the model.                                                *)

Normal300 == FontVariant("Normal", 300, 1000)
Normal400 == FontVariant("Normal", 400, 1000)
Normal500 == FontVariant("Normal", 500, 1000)

\* The descriptors a store catalog is drawn from: two faces of one collection
\* file whose family names differ only in case, and a face of another file.
StoreInfos ==
    { FaceInfo("fonts/a.ttc", 0, NameAb, Normal300),
      FaceInfo("fonts/a.ttc", 1, Name_ab, Normal500),
      FaceInfo("fonts/b.ttf", 0, Name_b, Normal500) }

StoreCatalogs == [1 .. MaxFaces -> StoreInfos]

StoreFamilies == {NameAb, Name_ab, Name_b}

StoreVariants == {Normal400, Normal500}

StoreRequests == StoreFamilies \X StoreVariants

\* The descriptors of the matching specification: every combination of two
\* styles, two weights and two stretches, under two family names.
MatchVariants ==
    { FontVariant(s, w, t) : s \in {"Normal", "Italic"}, w \in {300, 500},
                             t \in {875, 1125} }

MatchInfos == { FaceInfo("fonts/a.ttc", 0, f, v) : f \in {NameAb, Name_b},
                                                   v \in MatchVariants }

MatchCatalogs == [1 .. MaxFaces -> MatchInfos]

RequestFamilies == {NameAb, Name_ab, Name_b}

RequestVariants ==
    { FontVariant(s, w, t) : s \in FontStyle, w \in {300, 400, 500},
                             t \in {875, 1000, 1125} }

FaceIds == 0 .. (Len(infos) - 1)

----------------------------------------------------------------------------
(* The state machine of the font store.                                    *)

\* The state FontStore::new(loader) returns, for a loader whose faces() is one
\* of `catalogs`.
InitWith(catalogs) ==
    /\ infos \in catalogs
    /\ faces = NewFaces(infos)
    /\ families = BuildFamilies(infos, 1, <<>>)
    /\ buffers = <<>>
    /\ on_load = None
    /\ calls = [id \in FaceIds |-> <<>>]
    /\ stores = [id \in FaceIds |-> 0]
    /\ loadsOk = [h \in Hashes |-> 0]
    /\ faceHash = [id \in FaceIds |-> None]
    /\ returned = {}
    /\ loadedUnder = [id \in FaceIds |-> None]
    /\ paths = <<>>
    /\ sources = [earlier |-> 0, entries |-> <<>>]
    /\ reads = [k \in CanonicalPaths |-> 0]
    /\ last = [op |-> "new"]

Init == InitWith(StoreCatalogs)

OnLoadKeepFirst(f) ==
    /\ on_load' = IF on_load = None THEN Some(f) ELSE on_load
    /\ last' = [op |-> "on_load", observer |-> f]
    /\ UNCHANGED <<infos, faces, families, buffers, calls, stores, loadsOk,
                   faceHash, returned, loadedUnder, paths, sources,
                   reads>>

\* FontStore::on_load(f).
OnLoad(f) ==
    /\ on_load' = Some(f)
    /\ last' = [op |-> "on_load", observer |-> f]
    /\ UNCHANGED <<infos, faces, families, buffers, calls, stores, loadsOk,
                   faceHash, returned, loadedUnder, paths, sources,
                   reads>>

\* FontStore::select(family, variant), with r the outcome of loader.resolve
\* and l the outcome of loader.load should the call reach them.
Select(family, variant, r, l) ==
    \E o \in {SelectRun(infos, faces, families, buffers, on_load, family,
                        variant, r, l, SumOver(loadsOk, Hashes))} :
        /\ faces' = o.faces
        /\ buffers' = o.buffers
        /\ calls' = IF o.notified
                    THEN [calls EXCEPT ![o.chosen[1]] = Append(@, on_load[1])]
                    ELSE calls
        /\ stores' = IF o.stored
                     THEN [stores EXCEPT ![o.chosen[1]] = @ + 1]
                     ELSE stores
        /\ loadsOk' = IF o.loadOk
                      THEN [loadsOk EXCEPT ![o.hash[1]] = @ + 1]
                      ELSE loadsOk
        /\ faceHash' = IF o.stored
                       THEN [faceHash EXCEPT ![o.chosen[1]] = o.hash]
                       ELSE faceHash
        /\ returned' = IF o.result # None
                       THEN returned \cup {o.result[1]}
                       ELSE returned
        /\ loadedUnder' = IF o.stored
                          THEN [loadedUnder EXCEPT ![o.chosen[1]] = on_load]
                          ELSE loadedUnder
        /\ last' = [op |-> "select", family |-> family, variant |-> variant,
                    result |-> o.result, chosen |-> o.chosen,
                    wasLoaded |-> o.wasLoaded,
                    resolveCalled |-> o.resolveCalled, resolveOk |-> o.resolveOk,
                    hash |-> o.hash,
                    loadCalled |-> o.loadCalled, loadOk |-> o.loadOk,
                    parseCalled |-> o.parseCalled, parseOk |-> o.parseOk,
                    notified |-> o.notified, stored |-> o.stored,
                    slotAtCallback |-> o.slotAtCallback,
                    afterFailure |-> /\ last.op = "select"
                                     /\ last.resolveCalled
                                     /\ last.result = None
                                     /\ last.chosen = o.chosen,
                    retryOf |-> IF /\ last.op = "select"
                                   /\ last.family = family
                                   /\ last.variant = variant
                                   /\ last.resolveOk
                                   /\ last.result = None
                                THEN Some([hash |-> last.hash[1],
                                           loadCalled |-> last.loadCalled,
                                           parseCalled |-> last.parseCalled])
                                ELSE None]
        /\ UNCHANGED <<infos, families, on_load, paths, sources, reads>>

\* FontStore::get(id).
Get(id) ==
    /\ last' = [op |-> "get", id |-> id, panic |-> GetRun(faces, id).panic,
                face |-> GetRun(faces, id).face]
    /\ UNCHANGED <<infos, faces, families, buffers, on_load, calls, stores,
                   loadsOk, faceHash, returned, loadedUnder, paths, sources,
                   reads>>

Next ==
    \/ \E f \in Observers : OnLoad(f)
    \/ \E q \in StoreRequests, r \in LoaderResolveOutcomes,
          l \in LoaderLoadOutcomes : Select(q[1], q[2], r, l)
    \/ \E id \in 0 .. MaxFaces : Get(id)

Spec == Init /\ [][Next]_vars

----------------------------------------------------------------------------
(* The matching specification: lines 78-109 of select as a pure function   *)
(* of the catalog and the request.                                         *)

MatchInit == InitWith(MatchCatalogs)

\* The lookup and the search of select(family, variant), up to `best?`.
Match(family, variant) ==
    /\ last' = [op |-> "match", family |-> family, variant |-> variant,
                chosen |-> SelectBest(infos, families, family, variant)]
    /\ UNCHANGED <<infos, faces, families, buffers, on_load, calls, stores,
                   loadsOk, faceHash, returned, loadedUnder, paths, sources,
                   reads>>

MatchNext ==
    \E family \in RequestFamilies, variant \in RequestVariants :
        Match(family, variant)

MatchSpec == MatchInit /\ [][MatchNext]_vars

----------------------------------------------------------------------------
(* The state machine of the resource world cache.                          *)

\* LuaWorld::new, beside a font store without faces.
WorldInit == InitWith({<<>>})

\* LuaWorld::resolve(path).
Resolve(path, st, rd) ==
    \E o \in {ResolveRun(paths, sources, path, st, rd)} :
        /\ paths' = o.paths
        /\ sources' = o.sources
        /\ reads' = IF o.readCalled
                    THEN [reads EXCEPT ![normalize(path)] = @ + 1]
                    ELSE reads
        /\ last' = [op |-> "resolve", path |-> path, result |-> o.result,
                    computed |-> o.computed, statCalled |-> o.statCalled,
                    readCalled |-> o.readCalled,
                    stat |-> IF o.statCalled THEN Some(st) ELSE None,
                    read |-> IF o.readCalled THEN Some(rd) ELSE None]
        /\ UNCHANGED <<infos, faces, families, buffers, on_load, calls,
                       stores, loadsOk, faceHash, returned, loadedUnder>>

\* LuaWorld::file(path).
File(path, st, rd) ==
    \E o \in {FileRun(paths, path, st, rd)} :
        /\ paths' = o.paths
        /\ reads' = IF o.readCalled
                    THEN [reads EXCEPT ![normalize(path)] = @ + 1]
                    ELSE reads
        /\ last' = [op |-> "file", path |-> path, result |-> o.result,
                    computed |-> o.computed, statCalled |-> o.statCalled,
                    readCalled |-> o.readCalled,
                    stat |-> IF o.statCalled THEN Some(st) ELSE None,
                    read |-> IF o.readCalled THEN Some(rd) ELSE None]
        /\ UNCHANGED <<infos, faces, families, buffers, on_load, calls,
                       stores, loadsOk, faceHash, returned, loadedUnder, sources>>

WorldNext ==
    \/ \E p \in Spellings, st \in StatOutcomes, rd \in ReadOutcomes :
          Resolve(p, st, rd)
    \/ \E p \in Spellings, st \in StatOutcomes, rd \in ReadOutcomes :
          File(p, st, rd)

WorldSpec == WorldInit /\ [][WorldNext]_vars

----------------------------------------------------------------------------
(* The resource world cache after many paths have been resolved: the state *)
(* of a LuaWorld in which `Interned` other files were resolved before.     *)

\* The number of sources interned before the first step.
Interned == 65535

\* The state after resolve has succeeded on InternedPath(0), ... in turn. The
\* slots of those paths are not represented: no later call names them.
InternInit ==
    /\ infos = <<>>
    /\ faces = NewFaces(infos)
    /\ families = BuildFamilies(infos, 1, <<>>)
    /\ buffers = <<>>
    /\ on_load = None
    /\ calls = [id \in FaceIds |-> <<>>]
    /\ stores = [id \in FaceIds |-> 0]
    /\ loadsOk = [h \in Hashes |-> 0]
    /\ faceHash = [id \in FaceIds |-> None]
    /\ returned = {}
    /\ loadedUnder = [id \in FaceIds |-> None]
    /\ paths = <<>>
    /\ sources = [earlier |-> Interned, entries |-> <<>>]
    /\ reads = [k \in CanonicalPaths |-> 0]
    /\ last = [op |-> "new"]

InternSpec == InternInit /\ [][WorldNext]_vars

----------------------------------------------------------------------------
(* FontWeight::from_number as a function of every u16.                     *)

\* No font store and no world cache are involved.
NoStore ==
    /\ infos = <<>>
    /\ faces = NewFaces(infos)
    /\ families = BuildFamilies(infos, 1, <<>>)
    /\ buffers = <<>>
    /\ on_load = None
    /\ calls = [id \in FaceIds |-> <<>>]
    /\ stores = [id \in FaceIds |-> 0]
    /\ loadsOk = [h \in Hashes |-> 0]
    /\ faceHash = [id \in FaceIds |-> None]
    /\ returned = {}
    /\ loadedUnder = [id \in FaceIds |-> None]
    /\ paths = <<>>
    /\ sources = [earlier |-> 0, entries |-> <<>>]
    /\ reads = [k \in CanonicalPaths |-> 0]

\* The numbers a caller may pass: every u16.
WeightNumbers == 0 .. 65535

WeightInit ==
    /\ NoStore
    /\ last \in {[op |-> "number", weight |-> n] : n \in WeightNumbers}

\* FontWeight::from_number(weight).
FromNumber ==
    /\ last.op = "number"
    /\ last' = [op |-> "from_number", weight |-> last.weight,
                result |-> FontWeight_from_number(last.weight)]
    /\ UNCHANGED <<infos, faces, families, buffers, on_load, calls, stores,
                   loadsOk, faceHash, returned, loadedUnder, paths, sources,
                   reads>>

WeightNext == FromNumber

WeightSpec == WeightInit /\ [][WeightNext]_vars

----------------------------------------------------------------------------
(* FontWeight::distance as a function of two weights.                      *)

\* The numbers of the weights compared: the clamped range 100..900 and the
\* smaller numbers a FontWeight(n) written out directly may hold.
DistanceNumbers == 0 .. 900

\* The weights they are compared with: the nine named weights, the ends of
\* the range and numbers off the hundreds.
DistanceOthers ==
    {0, 1, 99, 450, 899} \cup {100 * h : h \in 1 .. 9}

DistanceInit ==
    /\ NoStore
    /\ last \in {[op |-> "weights", a |-> a, b |-> b] :
                    a \in DistanceNumbers, b \in DistanceOthers}
            \cup {[op |-> "weights", a |-> b, b |-> a] :
                    a \in DistanceNumbers, b \in DistanceOthers}

\* FontWeight(a).distance(FontWeight(b)).
Distance ==
    /\ last.op = "weights"
    /\ last' = [op |-> "distance", a |-> last.a, b |-> last.b,
                result |-> WeightDistance(last.a, last.b)]
    /\ UNCHANGED <<infos, faces, families, buffers, on_load, calls, stores,
                   loadsOk, faceHash, returned, loadedUnder, paths, sources,
                   reads>>

DistanceNext == Distance

DistanceSpec == DistanceInit /\ [][DistanceNext]_vars

----------------------------------------------------------------------------
(* The metrics of Face::new as a function of what the parsed font reports. *)

\* What rustybuzz reports of a face: the typographic (OS/2) values may be
\* absent; a capital height or x-height may be absent, negative, zero or
\* positive.
TtfFaces ==
    [units_per_em : {1000, 2048},
     typographic_ascender : {None, Some(800)},
     ascender : {900},
     capital_height : {None, Some(0 - 10), Some(0), Some(700)},
     x_height : {None, Some(0 - 10), Some(0), Some(500)},
     typographic_descender : {None, Some(0 - 200)},
     descender : {0 - 250}]

MetricInit ==
    /\ NoStore
    /\ last \in {[op |-> "parsed", ttf |-> t] : t \in TtfFaces}

\* Face::new, after from_slice has succeeded.
NewFaceMetrics ==
    /\ last.op = "parsed"
    /\ last' = [op |-> "Face::new", ttf |-> last.ttf,
                face |-> FaceMetrics(last.ttf)]
    /\ UNCHANGED <<infos, faces, families, buffers, on_load, calls, stores,
                   loadsOk, faceHash, returned, loadedUnder, paths, sources,
                   reads>>

MetricNext == NewFaceMetrics

MetricSpec == MetricInit /\ [][MetricNext]_vars

----------------------------------------------------------------------------
(* What the claims speak of, stated from the catalog alone.                *)

\* The FaceIds registered under the family key `family`.
Candidates(family) ==
    {id \in FaceIds : to_lowercase(infos[id + 1].family) = family}

AbsDiff(a, b) == IF a >= b THEN a - b ELSE b - a

\* Candidate c is strictly better than candidate d for the request: a
\* matching style beats a mismatching one, then the smaller stretch distance,
\* then the smaller weight distance.
Better(c, d, variant) ==
    LET vc == infos[c + 1].variant
        vd == infos[d + 1].variant
        sc == vc.style # variant.style
        sd == vd.style # variant.style
        tc == AbsDiff(vc.stretch, variant.stretch)
        td == AbsDiff(vd.stretch, variant.stretch)
        wc == AbsDiff(vc.weight, variant.weight)
        wd == AbsDiff(vd.weight, variant.weight)
    IN  \/ ~sc /\ sd
        \/ sc = sd /\ tc < td
        \/ sc = sd /\ tc = td /\ wc < wd

SameKey(c, d, variant) == ~Better(c, d, variant) /\ ~Better(d, c, variant)

\* The candidates of the family that equal the requested variant.
ExactMatches(family, variant) ==
    {id \in Candidates(family) : infos[id + 1].variant = variant}

\* The candidates no other candidate is strictly better than.
MinimalCandidates(family, variant) ==
    {c \in Candidates(family) :
        \A d \in Candidates(family) : ~Better(d, c, variant)}

Lowest(S) == CHOOSE x \in S : \A y \in S : x <= y

IsSelect == last.op = "select"

\* The last select went through resolve, load (or the buffer cache) and parse
\* without a failure.
LoadSucceeded ==
    /\ last.resolveOk
    /\ last.loadCalled => last.loadOk
    /\ last.parseOk

----------------------------------------------------------------------------
(* C1: select looks the family up case-insensitively: the candidates it    *)
(* considers for a spelling S are those of lowercase(S), and it finds no    *)
(* family only when no face is registered under lowercase(S).              *)
C1_CaseInsensitiveLookup ==
    IsSelect =>
        /\ last.chosen = SelectBest(infos, families, to_lowercase(last.family),
                                    last.variant)
        /\ last.chosen = None => Candidates(to_lowercase(last.family)) = {}

(* C2: when a candidate of the family equals the requested variant, select *)
(* chooses the first such candidate, whatever the other candidates are,    *)
(* and returns its FaceId when it is already loaded or its load succeeds.  *)
C2_ExactMatchShortCircuit ==
    (IsSelect /\ ExactMatches(last.family, last.variant) # {}) =>
        /\ last.chosen = Some(Lowest(ExactMatches(last.family, last.variant)))
        /\ (last.wasLoaded \/ LoadSucceeded) => last.result = last.chosen
        /\ last.result # None => last.result = last.chosen

\* A select returned an exact match that is not the first candidate of its
\* family.
C2_Witness ==
    /\ IsSelect
    /\ ExactMatches(last.family, last.variant) # {}
    /\ last.result # None
    /\ last.result[1] # families[last.family][1]

(* C3: with no exact match in the family, the chosen candidate has a       *)
(* lexicographically minimal key (style mismatch, stretch distance, weight  *)
(* distance): no candidate of the family is strictly better.               *)
C3_MinimalKey ==
    (last.op = "match" /\ Candidates(last.family) # {}
       /\ ExactMatches(last.family, last.variant) = {}) =>
        /\ last.chosen # None
        /\ last.chosen[1] \in MinimalCandidates(last.family, last.variant)

\* The search chose a candidate for its smaller stretch distance over a
\* candidate of the same style match with a smaller weight distance.
C3_Witness ==
    /\ last.op = "match"
    /\ last.chosen # None
    /\ ExactMatches(last.family, last.variant) = {}
    /\ \E d \in Candidates(last.family) :
          LET vc == infos[last.chosen[1] + 1].variant
              vd == infos[d + 1].variant
          IN  /\ (vc.style # last.variant.style) = (vd.style # last.variant.style)
              /\ AbsDiff(vc.stretch, last.variant.stretch)
                   < AbsDiff(vd.stretch, last.variant.stretch)
              /\ AbsDiff(vc.weight, last.variant.weight)
                   > AbsDiff(vd.weight, last.variant.weight)

(* C4: among candidates with the same minimal key select takes the one     *)
(* registered first (the lowest FaceId), and every call with the same      *)
(* arguments that returns a FaceId returns that one.                       *)
C4_FirstRegisteredWins ==
    (IsSelect /\ Candidates(last.family) # {}) =>
        /\ last.chosen =
              Some(Lowest(MinimalCandidates(last.family, last.variant)))
        /\ last.result # None => last.result = last.chosen

\* A repeated select returned the first of two candidates with the same
\* minimal key, the face being loaded already.
C4_Witness ==
    /\ IsSelect
    /\ last.wasLoaded
    /\ last.result # None
    /\ \E d \in MinimalCandidates(last.family, last.variant) :
          /\ d > last.result[1]
          /\ SameKey(d, last.result[1], last.variant)

(* C5: the observer is invoked exactly once for each FaceId a select has   *)
(* returned while an observer was registered and never for another FaceId, *)
(* inside the select that loads the face; the face is stored in its slot    *)
(* exactly once; a select that resolves to a loaded face calls neither      *)
(* loader.resolve, loader.load, the parser nor the observer.               *)
C5_LoadOnce ==
    /\ \A id \in FaceIds :
          /\ Len(calls[id]) <= 1
          /\ calls[id] # <<>> => id \in returned
          /\ (id \in returned /\ loadedUnder[id] # None) =>
                calls[id] = <<loadedUnder[id][1]>>
          /\ stores[id] = (IF id \in returned THEN 1 ELSE 0)
          /\ id \in returned <=> faces[id + 1] # None
    /\ (IsSelect /\ last.notified) => last.stored
    /\ (IsSelect /\ last.wasLoaded) =>
          /\ last.result = last.chosen
          /\ ~last.resolveCalled /\ ~last.loadCalled /\ ~last.parseCalled
          /\ ~last.notified /\ ~last.stored

\* A select resolved to a face that an earlier select loaded and reported to
\* the observer.
C5_Witness ==
    /\ IsSelect
    /\ last.wasLoaded
    /\ Len(calls[last.result[1]]) = 1
    /\ \A id \in FaceIds : id \in returned => loadedUnder[id] # None

\* A buffer-cache entry, once inserted, is neither replaced nor removed.
BuffersKept ==
    \A h \in DOMAIN buffers : h \in DOMAIN buffers' /\ buffers'[h] = buffers[h]

\* loader.load succeeded at most once per hash, every loaded face holds the
\* buffer-cache entry of the hash it was resolved to, and two loaded faces of
\* one file with one hash cost one loader.load.
BuffersShared ==
    /\ \A h \in Hashes :
          /\ loadsOk[h] <= 1
          /\ loadsOk[h] = 1 <=> h \in DOMAIN buffers
    /\ \A id \in FaceIds :
          faces[id + 1] # None =>
              /\ faceHash[id] # None
              /\ faceHash[id][1] \in DOMAIN buffers
              /\ faces[id + 1][1].buffer = buffers[faceHash[id][1]]
    /\ \A c, d \in FaceIds :
          (/\ c # d
           /\ faces[c + 1] # None /\ faces[d + 1] # None
           /\ infos[c + 1].path = infos[d + 1].path
           /\ faceHash[c] = faceHash[d]) =>
              /\ loadsOk[faceHash[c][1]] = 1
              /\ faces[c + 1][1].buffer.rc = faces[d + 1][1].buffer.rc

(* C6: loader.load succeeds at most once per content hash, every face      *)
(* loaded under that hash holds the one shared buffer cached for it (two    *)
(* faces of one collection file cost one load), and a buffer-cache entry is *)
(* never replaced or removed.                                              *)
C6_BufferSharing == []BuffersShared /\ [][BuffersKept]_vars

\* Two faces of one collection file are loaded under the same hash.
C6_Witness ==
    \E c, d \in FaceIds :
        /\ c # d
        /\ faces[c + 1] # None /\ faces[d + 1] # None
        /\ infos[c + 1].path = infos[d + 1].path
        /\ infos[c + 1].index # infos[d + 1].index
        /\ faceHash[c] = faceHash[d]

\* A step that is a select call which went on to load and failed leaves the
\* slots and the observer's record alone.
FailureLeavesNoTrace ==
    (last'.op = "select" /\ last'.resolveCalled /\ last'.result = None) =>
        /\ faces' = faces
        /\ calls' = calls
        /\ stores' = stores
        /\ returned' = returned

\* A select whose chosen slot is empty tries to load, whatever happened
\* before, and returns the face exactly when nothing fails.
EmptySlotIsLoaded ==
    (IsSelect /\ last.chosen # None /\ ~last.wasLoaded) =>
        /\ last.resolveCalled
        /\ last.result = (IF LoadSucceeded THEN last.chosen ELSE None)
        /\ last.result = None =>
              /\ faces[last.chosen[1] + 1] = None
              /\ ~last.notified
              /\ ~last.stored

(* C7: a failure of loader.resolve, loader.load or the parse makes select  *)
(* return None without trying another candidate, changes no face slot and   *)
(* invokes no observer; it is not remembered: a later select choosing the   *)
(* same face loads again and succeeds when nothing fails.                  *)
C7_FailuresNotMemoized == []EmptySlotIsLoaded /\ [][FailureLeavesNoTrace]_vars

\* A select succeeded right after a select that chose the same face and
\* failed.
C7_Witness ==
    /\ IsSelect
    /\ last.afterFailure
    /\ last.result # None
    /\ last.stored

\* Whether a select call read or parsed.
Reads(call) == call.loadCalled \/ call.parseCalled

(* C8 as claimed: calls with the same (family, variant) observe a single   *)
(* underlying read/parse and all receive the same outcome, also when the    *)
(* first attempt fails. Stated for two calls in a row.                     *)
C8_SameOutcomePerRequest ==
    [][(/\ last.op = "select" /\ last'.op = "select"
        /\ last'.family = last.family /\ last'.variant = last.variant) =>
           /\ last'.result = last.result
           /\ ~(Reads(last) /\ Reads(last'))]_vars

\* A select that chooses a face some select has returned before returns it
\* again and neither resolves, loads nor parses.
SuccessIsMemoized ==
    (/\ last'.op = "select"
     /\ last'.chosen # None
     /\ last'.chosen[1] \in returned) =>
        /\ last'.result = last'.chosen
        /\ ~last'.resolveCalled /\ ~last'.loadCalled /\ ~last'.parseCalled
        /\ faces' = faces /\ buffers' = buffers

\* After a successful select, the same request gives the same result.
SuccessRepeats ==
    (/\ last.op = "select" /\ last'.op = "select"
     /\ last'.family = last.family /\ last'.variant = last.variant
     /\ last.result # None) =>
        /\ last'.result = last.result
        /\ ~Reads(last')

(* C8 as amended: only success is memoized. Once a select has returned a   *)
(* FaceId, every later call that chooses that face (so every later call     *)
(* with the same family and variant) returns it without a read or a parse;  *)
(* a failed attempt is not remembered.                                     *)
C8_SuccessMemoizedOnly == [][SuccessIsMemoized /\ SuccessRepeats]_vars

\* A select was answered from a loaded slot in a run in which a parse had
\* failed: bytes that do not parse are still in the buffer cache.
C8_Witness ==
    /\ IsSelect
    /\ last.wasLoaded
    /\ last.result # None
    /\ \E h \in DOMAIN buffers : buffers[h].data = {}

\* A loaded slot is never emptied or replaced.
SlotsKept ==
    \A i \in DOMAIN faces : faces[i] # None => faces'[i] = faces[i]

\* Every returned FaceId has a loaded slot, and get panics exactly when the
\* id is outside the table or its slot is empty.
GetIsSafe ==
    /\ \A id \in returned :
          /\ id + 1 \in DOMAIN faces
          /\ faces[id + 1] # None
          /\ ~GetRun(faces, id).panic
    /\ last.op = "get" =>
          /\ last.panic <=>
                (last.id < 0 \/ last.id >= Len(faces) \/ faces[last.id + 1] = None)
          /\ ~last.panic => last.face = faces[last.id + 1]
          /\ last.id \in returned => ~last.panic

(* C9: every FaceId a select has returned keeps a loaded slot, so get on   *)
(* it returns the face; get panics exactly when the slot is empty or the id *)
(* is outside the face table.                                              *)
C9_GetSafeOnSelected == []GetIsSafe /\ [][SlotsKept]_vars

\* get was called on a FaceId that a select had returned.
C9_Witness ==
    /\ last.op = "get"
    /\ last.id \in returned
    /\ ~last.panic

\* The cell of the last resolve or file call, after the call.
LastCell ==
    IF last.op = "resolve"
    THEN paths[normalize(last.path)].source
    ELSE paths[normalize(last.path)].buffer

\* What resolve and file return is what the cell of the path holds.
ResultIsCell ==
    last.op \in {"resolve", "file"} =>
        /\ normalize(last.path) \in DOMAIN paths
        /\ LastCell = Some(last.result)

\* A slot is never removed and a set cell never changes.
CellsKept ==
    \A k \in DOMAIN paths :
        /\ k \in DOMAIN paths'
        /\ paths[k].source # None => paths'[k].source = paths[k].source
        /\ paths[k].buffer # None => paths'[k].buffer = paths[k].buffer

\* A resolve (file) call on a path whose source (buffer) cell is set returns
\* the cell's value and computes nothing.
CellAnswers ==
    /\ (/\ last'.op = "resolve"
        /\ normalize(last'.path) \in DOMAIN paths
        /\ paths[normalize(last'.path)].source # None) =>
           /\ last'.result = paths[normalize(last'.path)].source[1]
           /\ ~last'.computed /\ ~last'.statCalled /\ ~last'.readCalled
           /\ sources' = sources
    /\ (/\ last'.op = "file"
        /\ normalize(last'.path) \in DOMAIN paths
        /\ paths[normalize(last'.path)].buffer # None) =>
           /\ last'.result = paths[normalize(last'.path)].buffer[1]
           /\ ~last'.computed /\ ~last'.statCalled /\ ~last'.readCalled

(* C10: once resolve (file) has returned a result for a canonical path,    *)
(* success or failure, every later resolve (file) call on an equivalent     *)
(* path returns that result and the cell is never recomputed or            *)
(* overwritten, whatever the file system holds by then.                    *)
C10_FirstResultIsFixed == []ResultIsCell /\ [][CellsKept /\ CellAnswers]_vars

\* resolve returned its memoized failure for a path through another spelling
\* than the one first asked for, although file has read the path since.
C10_Witness ==
    /\ last.op = "resolve"
    /\ ~last.computed
    /\ ~last.result.ok
    /\ paths[normalize(last.path)].buffer # None
    /\ paths[normalize(last.path)].buffer[1].ok
    /\ last.path = PathAB

----------------------------------------------------------------------------
\* The cell a resolve (file) call on `path` looks at, before the call: None
\* when the path has no slot yet.
CellBefore(op, path) ==
    IF normalize(path) \notin DOMAIN paths
    THEN None
    ELSE IF op = "resolve"
         THEN paths[normalize(path)].source
         ELSE paths[normalize(path)].buffer

\* A failure that resolve (file) returns is the value of the path's cell.
ErrorIsStored ==
    (last.op \in {"resolve", "file"} /\ ~last.result.ok) =>
        /\ normalize(last.path) \in DOMAIN paths
        /\ LastCell = Some(last.result)

\* A resolve (file) call on a path whose cell holds a failure returns that
\* failure, calls neither fs::metadata nor fs::read, and leaves the failure
\* in the cell.
ErrorIsAnswered ==
    (/\ last'.op \in {"resolve", "file"}
     /\ CellBefore(last'.op, last'.path) # None
     /\ ~CellBefore(last'.op, last'.path)[1].ok) =>
        /\ last'.result = CellBefore(last'.op, last'.path)[1]
        /\ ~last'.statCalled
        /\ ~last'.readCalled
        /\ paths' = paths
        /\ sources' = sources

(* C11: fallible memoization. A path whose resolve failed (missing file or  *)
(* any other failure) returns the same FileError when resolved again, and   *)
(* the second call probes the filesystem neither with a stat nor with a     *)
(* read; the same holds for file.                                           *)
C11_FallibleMemoization == []ErrorIsStored /\ [][ErrorIsAnswered]_vars

\* resolve has returned the memoized NotFound of a path whose file call
\* failed differently, without a probe.
C11_Witness ==
    /\ last.op = "resolve"
    /\ ~last.computed
    /\ ~last.statCalled
    /\ last.result = Err("NotFound")
    /\ paths[normalize(last.path)].buffer = Some(Err("IsDirectory"))

----------------------------------------------------------------------------
\* Every slot is keyed by a canonical path: no spelling has a slot of its own.
SlotsAreCanonical == DOMAIN paths \subseteq CanonicalPaths

\* At most one source is interned per canonical path.
OneSourcePerPath ==
    \A i, j \in 1 .. Len(sources.entries) :
        normalize(sources.entries[i].path) = normalize(sources.entries[j].path)
            => i = j

\* The sources interned for a spelling equivalent to `path`.
InternedFor(path) ==
    {i \in 1 .. Len(sources.entries) :
        normalize(sources.entries[i].path) = normalize(path)}

\* A resolve of a path for which a source is interned, under this spelling or
\* an equivalent one, returns that source's id, reads nothing and interns
\* nothing.
SpellingsAgree ==
    (last'.op = "resolve" /\ InternedFor(last'.path) # {}) =>
        /\ \E i \in InternedFor(last'.path) :
               last'.result = Ok(sources.entries[i].id)
        /\ ~last'.computed
        /\ ~last'.statCalled
        /\ ~last'.readCalled
        /\ sources' = sources

\* The id of a pair is the one the source list gives its next entry at the
\* first successful call of the pair, whichever spelling that call used.
FirstGetsNextId ==
    (last'.op = "resolve" /\ last'.computed /\ last'.result.ok) =>
        /\ last'.result = Ok(NextSourceId(sources))
        /\ SourcesLen(sources') = SourcesLen(sources) + 1
        /\ sources'.entries[Len(sources'.entries)].path = last'.path

(* C12: canonicalization equivalence. Two spellings with the same           *)
(* normalized path ("a/../b.typ" and "b.typ") share one slot: resolve on    *)
(* either returns the same SourceId, only the first of the two calls reads  *)
(* the file and interns a source, and which spelling comes first does not   *)
(* change the SourceId the pair gets.                                       *)
C12_CanonicalizationEquivalence ==
    /\ [](SlotsAreCanonical /\ OneSourcePerPath)
    /\ [][SpellingsAgree /\ FirstGetsNextId]_vars

\* resolve("b.typ") has returned, without a read, the id of the source that
\* resolve("a/../b.typ") interned.
C12_Witness ==
    /\ last.op = "resolve"
    /\ last.path = PathB
    /\ last.result.ok
    /\ ~last.computed
    /\ SourceAt(sources, last.result.val[1]).path = PathAB

----------------------------------------------------------------------------
\* The number of cells of the slot of canonical path k that are set.
CellsSet(k) ==
    IF k \notin DOMAIN paths
    THEN 0
    ELSE (IF paths[k].source # None THEN 1 ELSE 0)
         + (IF paths[k].buffer # None THEN 1 ELSE 0)

(* C13 as claimed: no path is read twice. In any sequence of resolve and    *)
(* file calls on one cache, fs::read is called at most once in total for    *)
(* each canonical path, also when the path is requested both as text and    *)
(* as raw bytes.                                                            *)
C13_NoPathReadTwice == \A k \in CanonicalPaths : reads[k] <= 1

\* Each fs::read of a path fills one of the two cells of its slot.
ReadsWithinCells == \A k \in CanonicalPaths : reads[k] <= CellsSet(k)

\* A call reads only when the cell of its own kind is empty, reads once, and
\* leaves that cell set.
ReadFillsOwnCell ==
    \A k \in CanonicalPaths :
        reads'[k] # reads[k] =>
            /\ reads'[k] = reads[k] + 1
            /\ last'.op \in {"resolve", "file"}
            /\ normalize(last'.path) = k
            /\ CellBefore(last'.op, last'.path) = None
            /\ k \in DOMAIN paths'
            /\ IF last'.op = "resolve"
               THEN paths'[k].source # None
               ELSE paths'[k].buffer # None

(* C13 as amended: each canonical path is read at most once by resolve and  *)
(* at most once by file, so at most twice in total. A read happens only in  *)
(* a call whose own cell is empty and that call sets the cell; the text     *)
(* cell and the byte cell do not share the bytes read.                      *)
C13_ReadOncePerKind == []ReadsWithinCells /\ [][ReadFillsOwnCell]_vars

\* file has read a path that resolve had read before.
C13_Witness ==
    /\ last.op = "file"
    /\ last.readCalled
    /\ reads[normalize(last.path)] = 2
    /\ paths[normalize(last.path)].source # None
    /\ paths[normalize(last.path)].source[1].ok

----------------------------------------------------------------------------
\* The source cell and the buffer cell of canonical path k in table ps.
SourceCell(ps, k) == IF k \in DOMAIN ps THEN ps[k].source ELSE None

BufferCell(ps, k) == IF k \in DOMAIN ps THEN ps[k].buffer ELSE None

\* resolve leaves every buffer cell as it was.
ResolveKeepsBuffers ==
    last'.op = "resolve" =>
        \A k \in DOMAIN paths' : BufferCell(paths', k) = BufferCell(paths, k)

\* file leaves every source cell and the source list as they were.
FileKeepsSources ==
    last'.op = "file" =>
        /\ \A k \in DOMAIN paths' :
               SourceCell(paths', k) = SourceCell(paths, k)
        /\ sources' = sources

\* A file call on a path whose buffer cell is empty stats the path and, when
\* the path is a readable file, returns the bytes read, whatever the source
\* cell holds.
FileIgnoresSource ==
    (last'.op = "file" /\ CellBefore("file", last'.path) = None) =>
        /\ last'.computed
        /\ last'.stat # None
        /\ (last'.stat[1].ok /\ ~last'.stat[1].val[1]) =>
               /\ last'.read # None
               /\ last'.read[1].ok => last'.result = Ok(last'.read[1].val[1])

\* A resolve call on a path whose source cell is empty computes its own
\* outcome from its own stat and read, whatever the buffer cell holds.
ResolveIgnoresBuffer ==
    (last'.op = "resolve" /\ CellBefore("resolve", last'.path) = None) =>
        /\ last'.computed
        /\ last'.stat # None
        /\ last'.result = ResolveRun(<<>>, sources, last'.path, last'.stat[1],
                                     IF last'.read # None
                                     THEN last'.read[1]
                                     ELSE Err("NotFound")).result

(* C14: the text cell and the byte cell of a path are independent. resolve  *)
(* never sets or changes a buffer cell; file never sets or changes a source *)
(* cell and appends no source. After resolve(p) has memoized a decoding     *)
(* failure, file(p) still reads the bytes and returns them as Ok; after     *)
(* file(p) has memoized a result, resolve(p) still computes its own.        *)
C14_SlotsIndependent ==
    [][/\ ResolveKeepsBuffers
       /\ FileKeepsSources
       /\ FileIgnoresSource
       /\ ResolveIgnoresBuffer]_vars

\* file has read and returned the bytes of a path whose resolve had failed
\* to decode them.
C14_Witness ==
    /\ last.op = "file"
    /\ last.computed
    /\ last.result = Ok(BadBytes)
    /\ paths[normalize(last.path)].source = Some(Err("InvalidUtf8"))

----------------------------------------------------------------------------
\* The source list only grows, by one entry at a time and at its end, and
\* it grows exactly in a resolve call that computes a successful result;
\* the new entry holds the path given and the text read, and the call
\* returns the entry's index as SourceId.
SourcesAppendOnly ==
    /\ SourcesLen(sources') \in {SourcesLen(sources), SourcesLen(sources) + 1}
    /\ sources'.earlier = sources.earlier
    /\ SubSeq(sources'.entries, 1, Len(sources.entries)) = sources.entries
    /\ SourcesLen(sources') = SourcesLen(sources) + 1 <=>
           (last'.op = "resolve" /\ last'.computed /\ last'.result.ok)
    /\ SourcesLen(sources') = SourcesLen(sources) + 1 =>
           /\ last'.result = Ok(SourcesLen(sources))
           /\ sources'.entries[Len(sources'.entries)].id = SourcesLen(sources)
           /\ sources'.entries[Len(sources'.entries)].path = last'.path
           /\ sources'.entries[Len(sources'.entries)].text
                  = last'.read[1].val[1]

\* source(id), for the SourceId in the source cell of a requested path, is
\* the source interned for that path.
IdsStayValid ==
    \A k \in CanonicalPaths \cap DOMAIN paths :
        (paths[k].source # None /\ paths[k].source[1].ok) =>
            LET id == paths[k].source[1].val[1]
            IN  /\ id < SourcesLen(sources)
                /\ SourceAt(sources, id).id = id
                /\ normalize(SourceAt(sources, id).path) = k

(* C15: the source list is append-only and ids stay valid. Each first       *)
(* successful resolve of a canonical path appends exactly one source, with  *)
(* the path and the decoded text, and returns its index as SourceId; failed *)
(* resolves, repeated resolves and file calls append nothing; no entry is   *)
(* removed, reordered or changed, so source(id) for a SourceId returned by  *)
(* resolve(p) is at every later point the source interned for p.            *)
C15_SourcesAppendOnly == []IdsStayValid /\ [][SourcesAppendOnly]_vars

----------------------------------------------------------------------------
\* The places (family key, position) at which FaceId `id` stands in the
\* family index.
PlacesOf(id) ==
    {pl \in UNION {{k} \X (1 .. Len(families[k])) : k \in DOMAIN families} :
        families[pl[1]][pl[2]] = id}

\* The face table has one slot per descriptor, all empty after new; every
\* FaceId 0..n-1 stands at exactly one place of the family index, in the list
\* keyed by its lower-cased family name; every list is ascending and holds
\* only FaceIds with a slot.
StoreStructure ==
    /\ Len(faces) = Len(infos)
    /\ last.op = "new" => \A i \in 1 .. Len(faces) : faces[i] = None
    /\ \A id \in FaceIds :
           /\ Cardinality(PlacesOf(id)) = 1
           /\ \A pl \in PlacesOf(id) :
                  pl[1] = to_lowercase(infos[id + 1].family)
    /\ \A k \in DOMAIN families :
           /\ \A j \in 1 .. Len(families[k]) :
                  /\ families[k][j] \in FaceIds
                  /\ families[k][j] + 1 \in DOMAIN faces
           /\ \A i, j \in 1 .. Len(families[k]) :
                  i < j => families[k][i] < families[k][j]

\* No step changes the family index, the descriptors or the number of slots.
StructureKept ==
    /\ families' = families
    /\ infos' = infos
    /\ Len(faces') = Len(faces)

(* C16: the structure of a FontStore is fixed at construction. After new,   *)
(* the face table has exactly one slot per descriptor of loader.faces(),    *)
(* all empty; FaceIds are 0..n-1 in descriptor order; every FaceId stands   *)
(* in exactly one family list, the one keyed by its lower-cased family      *)
(* name, in ascending order; no select changes the family index or the      *)
(* number of slots, so every FaceId in families indexes a valid slot.       *)
C16_StructureFixed == []StoreStructure /\ [][StructureKept]_vars

\* A select has stored a face in a store whose descriptors "Ab" and "ab"
\* share the family list of "ab".
C16_Witness ==
    /\ IsSelect
    /\ last.stored
    /\ Name_ab \in DOMAIN families
    /\ families[Name_ab] = <<0, 1>>
    /\ infos[1].family = NameAb

----------------------------------------------------------------------------
\* n clamped to the range 100..900.
Clamped(n) == IF n < 100 THEN 100 ELSE IF n > 900 THEN 900 ELSE n

(* C17: weight clamping. For every 16-bit unsigned n, from_number(n) has    *)
(* the number min(max(n, 100), 900): it lies in 100..900, it equals         *)
(* from_number(100) for every n <= 100 and from_number(900) for every       *)
(* n >= 900, and from_number applied to its own result gives that result.   *)
C17_WeightClamping ==
    last.op = "from_number" =>
        /\ last.result = Clamped(last.weight)
        /\ last.result \in 100 .. 900
        /\ last.weight <= 100 => last.result = FontWeight_from_number(100)
        /\ last.weight >= 900 => last.result = FontWeight_from_number(900)
        /\ FontWeight_from_number(last.result) = last.result

\* from_number(0) has given the weight 100.
C17_Witness ==
    /\ last.op = "from_number"
    /\ last.weight = 0
    /\ last.result = 100

----------------------------------------------------------------------------
(* C18: weight distance. For any two font weights a and b with numbers in   *)
(* 0..900, distance(a, b) is the absolute difference of the numbers; it is  *)
(* symmetric, and it is 0 exactly when a = b.                               *)
C18_WeightDistance ==
    last.op = "distance" =>
        /\ last.result = AbsDiff(last.a, last.b)
        /\ last.result = WeightDistance(last.b, last.a)
        /\ last.result = 0 <=> last.a = last.b

\* distance(500, 900) has given 400, through a negative i16 difference.
C18_Witness ==
    /\ last.op = "distance"
    /\ last.a = 500
    /\ last.b = 900
    /\ last.result = 400

----------------------------------------------------------------------------
\* The height the font reports, in em, when it reports a positive one, and
\* the ascender otherwise.
HeightOrAscender(reported, face, ttf) ==
    IF reported = None
    THEN face.ascender
    ELSE IF reported[1] <= 0
         THEN face.ascender
         ELSE to_em(reported[1], ttf.units_per_em)

(* C19: metric fallback. Face::new reports a cap-height equal to the        *)
(* font's capital height (in em) when the font reports one and it is        *)
(* positive, and equal to the computed ascender when it is absent, zero or  *)
(* negative; the x-height follows the same rule; the ascender is the        *)
(* typographic ascender when present and the legacy ascender otherwise.     *)
C19_MetricFallback ==
    last.op = "Face::new" =>
        /\ last.face.ascender =
               to_em(IF last.ttf.typographic_ascender # None
                     THEN last.ttf.typographic_ascender[1]
                     ELSE last.ttf.ascender, last.ttf.units_per_em)
        /\ last.face.cap_height =
               HeightOrAscender(last.ttf.capital_height, last.face, last.ttf)
        /\ last.face.x_height =
               HeightOrAscender(last.ttf.x_height, last.face, last.ttf)

\* A face without typographic ascender that reports a capital height of 0
\* and a positive x-height has the legacy ascender as its cap-height.
C19_Witness ==
    /\ last.op = "Face::new"
    /\ last.ttf.typographic_ascender = None
    /\ last.ttf.capital_height = Some(0)
    /\ last.ttf.x_height = Some(500)
    /\ last.face.cap_height = to_em(900, last.ttf.units_per_em)
    /\ last.face.x_height = to_em(500, last.ttf.units_per_em)

----------------------------------------------------------------------------
\* The last call is a select that repeats, with the same family and variant,
\* a select that failed after loader.resolve had succeeded.
IsRetry == IsSelect /\ last.retryOf # None

\* The attempt before the retry failed in the parse.
RetryOfParseFailure == IsRetry /\ last.retryOf[1].parseCalled

\* The attempt before the retry failed in loader.load.
RetryOfLoadFailure == IsRetry /\ ~last.retryOf[1].parseCalled

\* loader.resolve gave the retry the hash it gave the failed attempt.
SameHashAgain ==
    last.resolveOk /\ last.hash[1] = last.retryOf[1].hash

\* A select that fails in the parse stores no face and leaves the bytes it
\* parsed in the buffer cache; one that fails in loader.load inserts nothing.
FailureCommits ==
    /\ (IsSelect /\ last.parseCalled /\ ~last.parseOk) =>
           /\ faces[last.chosen[1] + 1] = None
           /\ last.hash[1] \in DOMAIN buffers
    /\ (IsSelect /\ last.loadCalled /\ ~last.loadOk) =>
           /\ faces[last.chosen[1] + 1] = None
           /\ last.hash[1] \notin DOMAIN buffers

(* C20 as claimed: after a select that failed in the parse, no face is      *)
(* stored and the bytes stay in the buffer cache, so a retry of the same    *)
(* select calls loader.resolve and the parse again and does not call        *)
(* loader.load; after a select that failed in loader.load, nothing is in    *)
(* the buffer cache and a retry calls loader.load again. The retry is       *)
(* taken to be one whose loader.resolve succeeds.                           *)
C20_RetryDoesNotReload ==
    /\ FailureCommits
    /\ IsRetry => last.resolveCalled
    /\ (RetryOfParseFailure /\ last.resolveOk) =>
           /\ last.parseCalled
           /\ ~last.loadCalled
    /\ (RetryOfLoadFailure /\ last.resolveOk) => last.loadCalled

(* C20 as amended: the buffer cache is keyed by the hash loader.resolve     *)
(* returns. A retry always calls loader.resolve again; when that call gives *)
(* the hash of the failed attempt, a retry after a parse failure parses the *)
(* cached bytes again without a loader.load call, and a retry after a load  *)
(* failure calls loader.load again. When loader.resolve fails, the retry    *)
(* ends there; when it gives another hash, the retry loads unless that      *)
(* hash is cached.                                                          *)
C20_RetrySameHashDoesNotReload ==
    /\ FailureCommits
    /\ IsRetry => last.resolveCalled
    /\ (RetryOfParseFailure /\ SameHashAgain) =>
           /\ ~last.loadCalled
           /\ last.parseCalled
           /\ ~last.parseOk
    /\ (RetryOfLoadFailure /\ SameHashAgain) => last.loadCalled
    /\ (IsRetry /\ ~last.resolveOk) => ~last.loadCalled /\ ~last.parseCalled
    /\ (IsRetry /\ last.resolveOk /\ ~SameHashAgain) =>
           (last.loadCalled <=> loadsOk[last.hash[1]] = 0 \/ last.loadOk)

\* A select whose first attempt loaded the bytes and failed to parse them
\* has been retried: resolve gave the same hash and the parse ran again on
\* the cached bytes.
C20_Witness ==
    /\ RetryOfParseFailure
    /\ last.retryOf[1].loadCalled
    /\ SameHashAgain
    /\ ~last.loadCalled
    /\ last.parseCalled

----------------------------------------------------------------------------
\* The errors a resolve or file call may return.
FileErrors == {"NotFound", "AccessDenied", "IsDirectory", "InvalidUtf8", "Other"}

\* The last call was a resolve or file call that found its cell empty.
IsFirstCall == last.op \in {"resolve", "file"} /\ last.computed

\* What a first call returns, by what fs::metadata and fs::read told it.
Classified ==
    IsFirstCall =>
        /\ last.statCalled
        /\ last.stat # None
        /\ ~last.stat[1].ok =>
               /\ last.result = Err(from_io(last.stat[1].err))
               /\ ~last.readCalled
        /\ (last.stat[1].ok /\ last.stat[1].val[1]) =>
               /\ last.result = Err("IsDirectory")
               /\ ~last.readCalled
        /\ (last.stat[1].ok /\ ~last.stat[1].val[1]) =>
               /\ last.readCalled
               /\ last.read # None
               /\ ~last.read[1].ok =>
                      last.result = Err(from_io(last.read[1].err))
               /\ (last.read[1].ok /\ last.op = "file") =>
                      last.result = Ok(last.read[1].val[1])
               /\ (last.read[1].ok /\ last.op = "resolve") =>
                      IF last.read[1].val[1] = BadBytes
                      THEN last.result = Err("InvalidUtf8")
                      ELSE last.result.ok

\* Every call returns a FileResult: a value or one of the typed errors.
AlwaysReturns ==
    last.op \in {"resolve", "file"} =>
        \/ last.result.ok /\ Len(last.result.val) = 1
        \/ ~last.result.ok /\ last.result.err \in FileErrors

\* A call that returns an error interns nothing.
ErrorInternsNothing ==
    (last'.op \in {"resolve", "file"} /\ ~last'.result.ok) =>
        sources' = sources

(* C21: directory and I/O error classification. The first resolve or file   *)
(* call for a path stats it first; if the stat fails, the result is the     *)
(* FileError of that I/O error and nothing is read; if the path is a        *)
(* directory, the result is IsDirectory and nothing is read; otherwise the  *)
(* bytes are read and a read error is returned as its FileError; resolve    *)
(* returns a decoding error, interning nothing, when the bytes are not      *)
(* UTF-8. Every failure is a returned value: no call panics.                *)
C21_ErrorClassification ==
    [](Classified /\ AlwaysReturns) /\ [][ErrorInternsNothing]_vars

\* file has found a directory, without a read, at a path whose resolve had
\* been refused by the stat.
C21_Witness ==
    /\ last.op = "file"
    /\ last.computed
    /\ last.result = Err("IsDirectory")
    /\ ~last.readCalled
    /\ paths[normalize(last.path)].source = Some(Err("AccessDenied"))

----------------------------------------------------------------------------
\* No entry pushed since the start carries the SourceId of another entry:
\* neither that of an entry pushed before the start (those carry the ids
\* below `earlier`, truncated) nor that of another entry pushed since.
IdsAreDistinct ==
    \A i \in 1 .. Len(sources.entries) :
        /\ sources.entries[i].id >= sources.earlier
        /\ \A j \in 1 .. Len(sources.entries) :
               sources.entries[j].id = sources.entries[i].id => j = i

\* source(id), for the id of an entry, is that entry.
SourceOfIdIsEntry ==
    \A i \in 1 .. Len(sources.entries) :
        /\ sources.entries[i].id < SourcesLen(sources)
        /\ SourceAt(sources, sources.entries[i].id) = sources.entries[i]

(* C22: distinct canonical paths that resolve successfully get distinct     *)
(* SourceIds, however many sources are interned: no two entries of the      *)
(* source list carry the same SourceId, and source(id) never returns an     *)
(* entry interned for another path.                                         *)
C22_DistinctSourceIds == IdsAreDistinct /\ SourceOfIdIsEntry

----------------------------------------------------------------------------
\* on_load(f) makes f the one registered observer, whatever was registered
\* before, and reports no face to it.
OnLoadReplaces ==
    last'.op = "on_load" =>
        /\ on_load' = Some(last'.observer)
        /\ calls' = calls
        /\ faces' = faces

\* A select call invokes an observer only for the face it stores, only after
\* resolve, load (or the buffer cache) and parse have succeeded, while the
\* slot is still empty, and it invokes the observer registered at that time,
\* once, and no other.
OnlyLatestInvoked ==
    last'.op = "select" =>
        IF last'.notified
        THEN /\ on_load # None
             /\ last'.chosen # None
             /\ calls' = [calls EXCEPT ![last'.chosen[1]] = Append(@, on_load[1])]
             /\ last'.resolveOk
             /\ last'.loadCalled => last'.loadOk
             /\ last'.parseOk
             /\ last'.slotAtCallback = "empty"
             /\ faces[last'.chosen[1] + 1] = None
             /\ faces'[last'.chosen[1] + 1] # None
        ELSE /\ calls' = calls
             /\ last'.stored => on_load = None

\* A face is reported to the observer registered when it was loaded and to
\* no observer registered later; a face loaded while none was registered is
\* never reported.
NoReplay ==
    \A id \in FaceIds :
        calls[id] = IF faces[id + 1] # None /\ loadedUnder[id] # None
                    THEN <<loadedUnder[id][1]>>
                    ELSE <<>>

(* C23: the store holds at most one observer and never replays loads. A     *)
(* call of on_load replaces the observer registered before, so only the     *)
(* latest one is invoked for faces loaded afterwards; faces loaded before   *)
(* an observer was registered are never reported to it; the observer is     *)
(* invoked before the face is stored in its slot and only after resolve,    *)
(* load and parse have all succeeded.                                       *)
C23_SingleObserver ==
    []NoReplay /\ [][OnLoadReplaces /\ OnlyLatestInvoked]_vars

\* Face 0 was reported to observer f alone and face 1, loaded after g had
\* replaced f, to g alone.
C23_Witness ==
    /\ IsSelect
    /\ last.notified
    /\ Len(infos) = 2
    /\ calls[0] = <<"f">>
    /\ calls[1] = <<"g">>
    /\ on_load = Some("g")

----------------------------------------------------------------------------
\* A select call leaves every slot but that of the face it chose as it was.
OtherSlotsKept ==
    last'.op = "select" =>
        /\ DOMAIN faces' = DOMAIN faces
        /\ \A i \in DOMAIN faces :
               (last'.chosen = None \/ i # last'.chosen[1] + 1) =>
                   faces'[i] = faces[i]

\* A select call changes no buffer-cache entry and adds at most the entry of
\* the hash loader.resolve gave it.
OtherBuffersKept ==
    last'.op = "select" =>
        /\ \A h \in DOMAIN buffers :
               h \in DOMAIN buffers' /\ buffers'[h] = buffers[h]
        /\ \A h \in DOMAIN buffers' \ DOMAIN buffers :
               last'.hash = Some(h) /\ last'.loadCalled

\* A select call leaves the family index, the descriptors and the observer
\* as they were.
IndexAndObserverKept ==
    last'.op = "select" =>
        /\ families' = families
        /\ infos' = infos
        /\ on_load' = on_load

\* A select of a family that has no key in the index changes nothing and
\* calls neither loader.resolve nor loader.load.
UnknownFamilyIsNoOp ==
    (last'.op = "select" /\ last'.family \notin DOMAIN families) =>
        /\ last'.result = None
        /\ faces' = faces
        /\ buffers' = buffers
        /\ calls' = calls
        /\ ~last'.resolveCalled
        /\ ~last'.loadCalled
        /\ ~last'.parseCalled

(* C24: a select call changes at most the slot of the face it chose and at  *)
(* most one buffer-cache entry, the one of that face's content hash; the    *)
(* slots of all other faces, all other buffer-cache entries, the family     *)
(* index and the registered observer are unchanged; a select whose family   *)
(* is unknown changes nothing and calls neither loader.resolve nor          *)
(* loader.load.                                                             *)
C24_SelectFrame ==
    [][/\ OtherSlotsKept
       /\ OtherBuffersKept
       /\ IndexAndObserverKept
       /\ UnknownFamilyIsNoOp]_vars

\* A select has loaded face 1 under a second hash while face 0, loaded
\* before under the first hash, and its buffer stayed in place.
C24_Witness ==
    /\ IsSelect
    /\ last.stored
    /\ last.loadOk
    /\ last.chosen = Some(1)
    /\ faces[1] # None
    /\ faceHash[0] # None
    /\ faceHash[0] # last.hash
    /\ faceHash[0][1] \in DOMAIN buffers
    /\ on_load # None

====
